---- MODULE Spec2Model ----
(***************************************************************************)
(* KidBank ledger: AccountManager (src/src/kidbank/accounts.py) on top of  *)
(* the SQLite store opened by Database (src/src/kidbank/database.py).      *)
(*                                                                         *)
(* A caller p is one process holding one Database object, hence one        *)
(* sqlite3 connection.  The database file is `disk`; a connection that has *)
(* executed an INSERT or UPDATE and not yet committed works on its private *)
(* copy `work[p]` (sqlite3 opens a deferred transaction before the first   *)
(* data-modifying statement and keeps it open until commit()).  Every SQL  *)
(* statement of a handler is one step, so that a crash, a store failure or *)
(* another caller can fall between two statements.                         *)
(*                                                                         *)
(* Amounts and balances are whole numbers of the smallest currency unit;  *)
(* the rounding of the REAL columns and of Python floats is not modelled.  *)
(***************************************************************************)
EXTENDS Integers, Sequences, FiniteSets, TLC

(* ----------------------------- bounds ---------------------------------- *)
MaxBalance == 2     \* deposits that would raise a balance above it are not issued
MaxTxns    == 2     \* calls are not issued once this many transactions are recorded
MaxFaults  == 1     \* store failures and crashes injected in one behaviour
MaxTime    == 1     \* seconds CURRENT_TIMESTAMP advances in one behaviour

(* ------------------------ program constants ---------------------------- *)
MinAccountNumber == 100000
MaxAccountNumber == 999999

Procs    == {1, 2}      \* callers sharing the database file
SeqProcs == {1}         \* the single interactive process of the application

AccountTypes == {"checking", "savings"}

(* Currency(code, name, symbol) *)
Currency(code, name, symbol) == [code |-> code, name |-> name, symbol |-> symbol]

(* The keys of the CURRENCIES dict, in the order the dict holds them. *)
CurrencyKeys == <<"USD", "BB">>

(* Mutant: an entry filed under a key that is not its code. *)
CURRENCIES_Miskeyed ==
    [k \in {"USD", "BB"} |->
        IF k = "USD" THEN Currency("USD", "US Dollars", "$")
        ELSE Currency("BRB", "BrainBucks", "BB")]

CURRENCIES ==
    [k \in {"USD", "BB"} |->
        IF k = "USD" THEN Currency("USD", "US Dollars", "$")
        ELSE Currency("BB", "BrainBucks", "BB")]

VARIABLES
    disk,     \* the database file: committed schema flag, accounts, transactions
    work,     \* work[p]: p's uncommitted copy of the database, when inTxn[p]
    inTxn,    \* inTxn[p]: p's connection has an open transaction
    lock,     \* the process holding SQLite's write lock, 0 when free
    conn,     \* conn[p]: Database.conn is not None
    pc,       \* pc[p]: the statement p's current call executes next
    req,      \* req[p]: the arguments of p's current (or last) call
    loc,      \* loc[p]: the local variables of p's current call
    res,      \* res[p]: how p's last call ended
    pre,      \* pre[p]: the ledger as it was when p's current call began
    now,      \* CURRENT_TIMESTAMP
    faults    \* store failures and crashes so far

vars == <<disk, work, inTxn, lock, conn, pc, req, loc, res, pre, now, faults>>

(* --------------------------- pure helpers ------------------------------ *)
Whitespace == {" "}

RECURSIVE LStrip(_)
LStrip(s) ==
    IF s # << >> /\ Head(s) \in Whitespace THEN LStrip(Tail(s)) ELSE s

RECURSIVE RStrip(_)
RStrip(s) ==
    IF s # << >> /\ s[Len(s)] \in Whitespace
    THEN RStrip(SubSeq(s, 1, Len(s) - 1)) ELSE s

Strip(s) == RStrip(LStrip(s))

DigitChars == <<"0", "1", "2", "3", "4", "5", "6", "7", "8", "9">>

RECURSIVE Str(_)
Str(n) ==
    IF n < 10 THEN <<DigitChars[n + 1]>>
    ELSE Str(n \div 10) \o <<DigitChars[(n % 10) + 1]>>

is_valid_currency(code) == code \in DOMAIN CURRENCIES

(* get_currency: the Currency, or ValueError("Unknown currency: ..."). *)
get_currency(code) ==
    IF code \notin DOMAIN CURRENCIES
    THEN [status |-> "Unknown currency", value |-> << >>]
    ELSE [status |-> "ok", value |-> CURRENCIES[code]]

(* list(CURRENCIES.values()) *)
get_available_currencies ==
    [k \in 1..Len(CurrencyKeys) |-> CURRENCIES[CurrencyKeys[k]]]

(* ----------------------------- inputs ---------------------------------- *)
Candidates     == {MinAccountNumber, MaxAccountNumber}
CreateArgs(fn, ln, at, cur, dep) ==
    [first_name |-> fn, last_name |-> ln, account_type |-> at,
     currency |-> cur, initial_deposit |-> dep]
CreateInputs ==
    {CreateArgs(<<" ", "a", " ">>, <<"b">>, "savings", "BB", 0),
     CreateArgs(<<"a">>, <<"b", " ">>, "checking", "USD", 1),
     CreateArgs(<<" ">>, <<"b">>, "savings", "BB", 0),
     CreateArgs(<<"a">>, << >>, "savings", "BB", 0),
     CreateArgs(<<"a">>, <<"b">>, "gold", "BB", 0),
     CreateArgs(<<"a">>, <<"b">>, "savings", "ZZZ", 0),
     CreateArgs(<<"a">>, <<"b">>, "savings", "BB", -1)}
AccountNumbers == {Str(n) : n \in Candidates}
TxnArgs(amount, description) == [amount |-> amount, description |-> description]
TxnInputs      ==
    {TxnArgs(-1, ""), TxnArgs(0, ""), TxnArgs(1, ""), TxnArgs(2, "gift")}
(* Holders whose names order differently by first and by last name, one   *)
(* name a prefix of another, and two holders of the same name.            *)
NamedCreateInputs ==
    {CreateArgs(fn, ln, "savings", "BB", 0) :
        fn \in {<<"a">>, <<"b">>}, ln \in {<<"a">>, <<"a", "b">>, <<"b">>}}
    \cup {CreateArgs(<<"b">>, <<"a">>, "checking", "USD", 1)}
(* The calls of concurrent callers: the ones that reach the store. *)
ValidCreateInputs ==
    {a \in CreateInputs :
        /\ Strip(a.first_name) # << >> /\ Strip(a.last_name) # << >>
        /\ a.account_type \in AccountTypes /\ is_valid_currency(a.currency)
        /\ a.initial_deposit >= 0}
PositiveTxnInputs == {a \in TxnInputs : a.amount = 1}
DefaultLimit   == 10
Limits         == {1, DefaultLimit}

(* ------------------------------ store ---------------------------------- *)
EmptyDb == [schema |-> FALSE, accounts |-> << >>, transactions |-> << >>]

Ledger(db) == [accounts |-> db.accounts, transactions |-> db.transactions]

View(p) == IF inTxn[p] THEN work[p] ELSE disk

NoRow ==
    [id |-> 0, account_number |-> << >>, first_name |-> << >>,
     last_name |-> << >>, account_type |-> "", currency |-> "",
     balance |-> 0, created_at |-> 0]

AccountRows(db, number) ==
    {i \in 1..Len(db.accounts) : db.accounts[i].account_number = number}

SelectAccount(db, number) ==
    IF AccountRows(db, number) = {} THEN NoRow
    ELSE db.accounts[CHOOSE i \in AccountRows(db, number) :
                        \A j \in AccountRows(db, number) : i <= j]

(* Mutant: the accounts table declared without UNIQUE on account_number. *)
NoUniqueConstraint(db, number) == FALSE

UniqueViolation(db, number) == AccountRows(db, number) # {}

SqlInsertAccount(db, number, fn, ln, at, cur, bal) ==
    [db EXCEPT !.accounts = Append(@,
        [id |-> Len(db.accounts) + 1, account_number |-> number,
         first_name |-> fn, last_name |-> ln, account_type |-> at,
         currency |-> cur, balance |-> bal, created_at |-> now])]

(* Mutant: the new transaction overwrites the latest one (an UPDATE in     *)
(* place of the INSERT).                                                  *)
SqlReplaceTransaction(db, account_id, type, amount, balance_after, description) ==
    [db EXCEPT !.transactions =
        (IF @ = << >> THEN @ ELSE SubSeq(@, 1, Len(@) - 1)) \o
        <<[id |-> IF @ = << >> THEN 1 ELSE Len(@), account_id |-> account_id,
           transaction_type |-> type, amount |-> amount,
           balance_after |-> balance_after, description |-> description,
           created_at |-> now]>>]

SqlInsertTransaction(db, account_id, type, amount, balance_after, description) ==
    [db EXCEPT !.transactions = Append(@,
        [id |-> Len(db.transactions) + 1, account_id |-> account_id,
         transaction_type |-> type, amount |-> amount,
         balance_after |-> balance_after, description |-> description,
         created_at |-> now])]

(* Mutant: REPLACE INTO in place of UPDATE: the row is deleted and         *)
(* inserted again under a new key.                                        *)
SqlReplaceAccount(db, number, new_balance) ==
    [db EXCEPT !.accounts =
        SelectSeq(@, LAMBDA a : a.account_number # number) \o
        <<[SelectAccount(db, number) EXCEPT !.id = Len(db.accounts) + 1,
                                            !.balance = new_balance]>>]

SqlUpdateBalance(db, number, new_balance) ==
    [db EXCEPT !.accounts =
        [i \in 1..Len(db.accounts) |->
            IF db.accounts[i].account_number = number
            THEN [db.accounts[i] EXCEPT !.balance = new_balance]
            ELSE db.accounts[i]]]

(* Mutant: the tables are dropped and created again on every open. *)
RecreateSchema(db) == [EmptyDb EXCEPT !.schema = TRUE]

(* CREATE TABLE IF NOT EXISTS: an existing table and its rows are kept. *)
_initialize_schema(db) == [db EXCEPT !.schema = TRUE]

(* Database.connect: opens the connection and creates the tables on the   *)
(* first use, returns the open connection afterwards.                      *)
connect(p) ==
    /\ conn' = [conn EXCEPT ![p] = TRUE]
    /\ disk' = IF conn[p] THEN disk ELSE _initialize_schema(disk)

(* The transaction a data-modifying statement of p runs in: the open one, *)
(* or a new one begun on the committed database.                           *)
Begin(p) == IF inTxn[p] THEN work[p] ELSE disk

(* --------------------------- call records ------------------------------ *)
NoReq ==
    [op |-> "none", account_number |-> << >>, amount |-> 0, description |-> "",
     limit |-> 0,
     first_name |-> << >>, last_name |-> << >>, account_type |-> "",
     currency |-> "", initial_deposit |-> 0]

InitLoc ==
    [account_number |-> << >>, account_id |-> 0, account |-> NoRow,
     new_balance |-> 0]

(* What a call hands back: None and "nothing yet" are the empty value. *)
NoValue == << >>

(* How a call ended: its status (ok or the exception's message), the      *)
(* statement it ended at and the value it returned.  For a read the       *)
(* record also keeps whether the call opened the connection, whether it   *)
(* repeats the call before it (same operation, same arguments) and, if    *)
(* so, what that call returned and whether that call opened the store.    *)
Outcome(status, at) ==
    [status |-> status, at |-> at, value |-> NoValue,
     opened |-> FALSE, again |-> FALSE, first |-> NoValue]

Snapshot(p) == [view |-> Ledger(View(p)), disk |-> Ledger(disk)]

Init ==
    /\ disk  = EmptyDb
    /\ work  = [p \in Procs |-> EmptyDb]
    /\ inTxn = [p \in Procs |-> FALSE]
    /\ lock  = 0
    /\ conn  = [p \in Procs |-> FALSE]
    /\ pc    = [p \in Procs |-> "idle"]
    /\ req   = [p \in Procs |-> NoReq]
    /\ loc   = [p \in Procs |-> InitLoc]
    /\ res   = [p \in Procs |-> Outcome("none", "idle")]
    /\ pre   = [p \in Procs |-> [view |-> Ledger(EmptyDb), disk |-> Ledger(EmptyDb)]]
    /\ now   = 0
    /\ faults = 0

(* A call returns or raises: its locals are gone, its outcome is known.    *)
Return(p, status) ==
    /\ pc'  = [pc EXCEPT ![p] = "idle"]
    /\ loc' = [loc EXCEPT ![p] = InitLoc]
    /\ res' = [res EXCEPT ![p] = Outcome(status, pc[p])]

(* A call returns a value. *)
Returns(p, value) ==
    /\ pc'  = [pc EXCEPT ![p] = "idle"]
    /\ loc' = [loc EXCEPT ![p] = InitLoc]
    /\ res' = [res EXCEPT ![p] = [Outcome("ok", pc[p]) EXCEPT !.value = value]]

Goto(p, label) ==
    /\ pc'  = [pc EXCEPT ![p] = label]
    /\ res' = [res EXCEPT ![p] = Outcome("pending", "-")]

(* ------------------------- create_account ------------------------------ *)
(* Mutant: the names are tested for emptiness only, not stripped first. *)
CreateValidationNoStrip(fn, ln, at, cur, dep) ==
    IF fn = << >> THEN "First name is required"
    ELSE IF ln = << >> THEN "Last name is required"
    ELSE IF at \notin AccountTypes THEN "Account type must be 'checking' or 'savings'"
    ELSE IF ~is_valid_currency(cur) THEN "Invalid currency"
    ELSE IF dep < 0 THEN "Initial deposit cannot be negative"
    ELSE "ok"

CreateValidation(fn, ln, at, cur, dep) ==
    IF fn = << >> \/ Strip(fn) = << >> THEN "First name is required"
    ELSE IF ln = << >> \/ Strip(ln) = << >> THEN "Last name is required"
    ELSE IF at \notin AccountTypes THEN "Account type must be 'checking' or 'savings'"
    ELSE IF ~is_valid_currency(cur) THEN "Invalid currency"
    ELSE IF dep < 0 THEN "Initial deposit cannot be negative"
    ELSE "ok"

CreateAccountCall(p, fn, ln, at, cur, dep) ==
    /\ pc[p] = "idle"
    /\ Len(View(p).transactions) < MaxTxns
    /\ req' = [req EXCEPT ![p] = [NoReq EXCEPT !.op = "create_account",
                  !.first_name = fn, !.last_name = ln, !.account_type = at,
                  !.currency = cur, !.initial_deposit = dep]]
    /\ pre' = [pre EXCEPT ![p] = Snapshot(p)]
    /\ IF CreateValidation(fn, ln, at, cur, dep) # "ok"
       THEN /\ Return(p, CreateValidation(fn, ln, at, cur, dep))
       ELSE /\ Goto(p, "ca_generate")
            /\ loc' = loc
    /\ UNCHANGED <<disk, work, inTxn, lock, conn, now, faults>>

(* Mutant: the loop's test is inverted, it leaves with a number in use. *)
GenerateAccountNumberInverted(p) ==
    /\ pc[p] = "ca_generate"
    /\ \E n \in Candidates :
        /\ connect(p)
        /\ IF SelectAccount(View(p), Str(n)) # NoRow
           THEN /\ loc' = [loc EXCEPT ![p].account_number = Str(n)]
                /\ Goto(p, "ca_insert")
           ELSE /\ UNCHANGED <<loc, pc, res>>
    /\ UNCHANGED <<work, inTxn, lock, req, pre, now, faults>>

(* One turn of generate_account_number's loop. *)
GenerateAccountNumber(p) ==
    /\ pc[p] = "ca_generate"
    /\ \E n \in Candidates :
        /\ connect(p)
        /\ IF SelectAccount(View(p), Str(n)) = NoRow
           THEN /\ loc' = [loc EXCEPT ![p].account_number = Str(n)]
                /\ Goto(p, "ca_insert")
           ELSE /\ UNCHANGED <<loc, pc, res>>
    /\ UNCHANGED <<work, inTxn, lock, req, pre, now, faults>>

(* Mutant: the account row is committed on its own, before the initial   *)
(* deposit is recorded.                                                   *)
CreateInsertAccountAutocommit(p) ==
    /\ pc[p] = "ca_insert"
    /\ lock \in {0, p}
    /\ lock' = p
    /\ inTxn' = [inTxn EXCEPT ![p] = TRUE]
    /\ ~UniqueViolation(Begin(p), loc[p].account_number)
    /\ work' = [work EXCEPT ![p] =
            SqlInsertAccount(Begin(p), loc[p].account_number,
                Strip(req[p].first_name), Strip(req[p].last_name),
                req[p].account_type, req[p].currency,
                req[p].initial_deposit)]
    /\ disk' = SqlInsertAccount(Begin(p), loc[p].account_number,
                Strip(req[p].first_name), Strip(req[p].last_name),
                req[p].account_type, req[p].currency,
                req[p].initial_deposit)
    /\ loc' = [loc EXCEPT ![p].account_id = Len(Begin(p).accounts) + 1]
    /\ Goto(p, IF req[p].initial_deposit > 0 THEN "ca_initial" ELSE "ca_commit")
    /\ UNCHANGED <<conn, req, pre, now, faults>>

(* Mutant: the names are stored as they were typed. *)
CreateInsertAccountUnstripped(p) ==
    /\ pc[p] = "ca_insert"
    /\ lock \in {0, p}
    /\ lock' = p
    /\ inTxn' = [inTxn EXCEPT ![p] = TRUE]
    /\ IF UniqueViolation(Begin(p), loc[p].account_number)
       THEN /\ work' = [work EXCEPT ![p] = Begin(p)]
            /\ Return(p, "IntegrityError")
       ELSE /\ work' = [work EXCEPT ![p] =
                    SqlInsertAccount(Begin(p), loc[p].account_number,
                        req[p].first_name, req[p].last_name,
                        req[p].account_type, req[p].currency,
                        req[p].initial_deposit)]
            /\ loc' = [loc EXCEPT ![p].account_id = Len(Begin(p).accounts) + 1]
            /\ Goto(p, IF req[p].initial_deposit > 0 THEN "ca_initial" ELSE "ca_commit")
    /\ UNCHANGED <<disk, conn, req, pre, now, faults>>

CreateInsertAccount(p) ==
    /\ pc[p] = "ca_insert"
    /\ lock \in {0, p}
    /\ lock' = p
    /\ inTxn' = [inTxn EXCEPT ![p] = TRUE]
    /\ IF UniqueViolation(Begin(p), loc[p].account_number)
       THEN /\ work' = [work EXCEPT ![p] = Begin(p)]
            /\ Return(p, "IntegrityError")
       ELSE /\ work' = [work EXCEPT ![p] =
                    SqlInsertAccount(Begin(p), loc[p].account_number,
                        Strip(req[p].first_name), Strip(req[p].last_name),
                        req[p].account_type, req[p].currency,
                        req[p].initial_deposit)]
            /\ loc' = [loc EXCEPT ![p].account_id = Len(Begin(p).accounts) + 1]
            /\ Goto(p, IF req[p].initial_deposit > 0 THEN "ca_initial" ELSE "ca_commit")
    /\ UNCHANGED <<disk, conn, req, pre, now, faults>>

(* Mutant: the initial deposit is recorded under the next account key. *)
CreateInsertInitialWrongKey(p) ==
    /\ pc[p] = "ca_initial"
    /\ work' = [work EXCEPT ![p] =
            SqlInsertTransaction(work[p], loc[p].account_id + 1, "deposit",
                req[p].initial_deposit, req[p].initial_deposit,
                "Initial deposit")]
    /\ Goto(p, "ca_commit")
    /\ UNCHANGED <<disk, inTxn, lock, conn, req, loc, pre, now, faults>>

CreateInsertInitial(p) ==
    /\ pc[p] = "ca_initial"
    /\ work' = [work EXCEPT ![p] =
            SqlInsertTransaction(work[p], loc[p].account_id, "deposit",
                req[p].initial_deposit, req[p].initial_deposit,
                "Initial deposit")]
    /\ Goto(p, "ca_commit")
    /\ UNCHANGED <<disk, inTxn, lock, conn, req, loc, pre, now, faults>>

(* conn.commit(): the open transaction becomes the database file. *)
Commit(p) ==
    /\ disk'  = work[p]
    /\ work'  = [work EXCEPT ![p] = EmptyDb]
    /\ inTxn' = [inTxn EXCEPT ![p] = FALSE]
    /\ lock'  = 0

CreateCommit(p) ==
    /\ pc[p] = "ca_commit"
    /\ Commit(p)
    /\ Returns(p, [id |-> loc[p].account_id,
                   account_number |-> loc[p].account_number,
                   first_name |-> Strip(req[p].first_name),
                   last_name |-> Strip(req[p].last_name),
                   account_type |-> req[p].account_type,
                   currency |-> req[p].currency,
                   balance |-> req[p].initial_deposit])
    /\ UNCHANGED <<conn, req, pre, now, faults>>

CreateAccount(p, inputs) ==
    \/ \E a \in inputs :
            CreateAccountCall(p, a.first_name, a.last_name, a.account_type,
                              a.currency, a.initial_deposit)
    \/ GenerateAccountNumber(p)
    \/ CreateInsertAccount(p)
    \/ CreateInsertInitial(p)
    \/ CreateCommit(p)

(* ----------------------------- deposit ------------------------------- *)
(* Mutant: the account is looked up before the amount is checked. *)
DepositCallLookupFirst(p, number, amount, description) ==
    /\ pc[p] = "idle"
    /\ Len(View(p).transactions) < MaxTxns
    /\ SelectAccount(View(p), number).balance + amount <= MaxBalance
    /\ req' = [req EXCEPT ![p] = [NoReq EXCEPT !.op = "deposit",
                  !.account_number = number, !.amount = amount,
                  !.description = description]]
    /\ pre' = [pre EXCEPT ![p] = Snapshot(p)]
    /\ connect(p)
    /\ IF SelectAccount(View(p), number) = NoRow
       THEN Return(p, "Account not found")
       ELSE IF amount <= 0
       THEN Return(p, "Deposit amount must be positive")
       ELSE /\ loc' = [loc EXCEPT ![p].account = SelectAccount(View(p), number),
                          ![p].new_balance =
                              SelectAccount(View(p), number).balance + amount]
            /\ Goto(p, "dep_update")
    /\ UNCHANGED <<work, inTxn, lock, now, faults>>

DepositCall(p, number, amount, description) ==
    /\ pc[p] = "idle"
    /\ Len(View(p).transactions) < MaxTxns
    /\ SelectAccount(View(p), number).balance + amount <= MaxBalance
    /\ req' = [req EXCEPT ![p] = [NoReq EXCEPT !.op = "deposit",
                  !.account_number = number, !.amount = amount,
                  !.description = description]]
    /\ pre' = [pre EXCEPT ![p] = Snapshot(p)]
    /\ IF amount <= 0
       THEN /\ Return(p, "Deposit amount must be positive")
            /\ UNCHANGED <<disk, conn>>
       ELSE /\ connect(p)
            /\ IF SelectAccount(View(p), number) = NoRow
               THEN Return(p, "Account not found")
               ELSE /\ loc' = [loc EXCEPT ![p].account = SelectAccount(View(p), number),
                                  ![p].new_balance =
                                      SelectAccount(View(p), number).balance + amount]
                    /\ Goto(p, "dep_update")
    /\ UNCHANGED <<work, inTxn, lock, now, faults>>

(* Mutant: the balance update is committed on its own, before the insert. *)
DepositUpdateAutocommit(p) ==
    /\ pc[p] = "dep_update"
    /\ lock \in {0, p}
    /\ lock' = p
    /\ inTxn' = [inTxn EXCEPT ![p] = TRUE]
    /\ work' = [work EXCEPT ![p] =
            SqlUpdateBalance(Begin(p), req[p].account_number, loc[p].new_balance)]
    /\ disk' = SqlUpdateBalance(Begin(p), req[p].account_number, loc[p].new_balance)
    /\ Goto(p, "dep_insert")
    /\ UNCHANGED <<conn, req, loc, pre, now, faults>>

DepositUpdate(p) ==
    /\ pc[p] = "dep_update"
    /\ lock \in {0, p}
    /\ lock' = p
    /\ inTxn' = [inTxn EXCEPT ![p] = TRUE]
    /\ work' = [work EXCEPT ![p] =
            SqlUpdateBalance(Begin(p), req[p].account_number, loc[p].new_balance)]
    /\ Goto(p, "dep_insert")
    /\ UNCHANGED <<disk, conn, req, loc, pre, now, faults>>

(* Mutant: the transaction records the balance before the deposit. *)
DepositInsertOldBalance(p) ==
    /\ pc[p] = "dep_insert"
    /\ work' = [work EXCEPT ![p] =
            SqlInsertTransaction(work[p], loc[p].account.id, "deposit",
                req[p].amount, loc[p].account.balance,
                IF req[p].description # "" THEN req[p].description ELSE "Deposit")]
    /\ Goto(p, "dep_commit")
    /\ UNCHANGED <<disk, inTxn, lock, conn, req, loc, pre, now, faults>>

DepositInsert(p) ==
    /\ pc[p] = "dep_insert"
    /\ work' = [work EXCEPT ![p] =
            SqlInsertTransaction(work[p], loc[p].account.id, "deposit",
                req[p].amount, loc[p].new_balance,
                IF req[p].description # "" THEN req[p].description ELSE "Deposit")]
    /\ Goto(p, "dep_commit")
    /\ UNCHANGED <<disk, inTxn, lock, conn, req, loc, pre, now, faults>>

DepositCommit(p) ==
    /\ pc[p] = "dep_commit"
    /\ Commit(p)
    /\ Returns(p, [account_number |-> req[p].account_number,
                   transaction_type |-> "deposit",
                   amount |-> req[p].amount,
                   new_balance |-> loc[p].new_balance])
    /\ UNCHANGED <<conn, req, pre, now, faults>>

Deposit(p, inputs) ==
    \/ \E number \in AccountNumbers, a \in inputs :
            DepositCall(p, number, a.amount, a.description)
    \/ DepositUpdate(p)
    \/ DepositInsert(p)
    \/ DepositCommit(p)

(* ----------------------------- withdraw ------------------------------ *)
(* Mutant: withdraw without the funds check. *)
NoFundsCheck(balance, amount) == FALSE

(* Mutant: the funds check is off by one. *)
InsufficientFundsOffByOne(balance, amount) == balance < amount - 1

(* Mutant: the funds check also refuses to empty the account. *)
InsufficientFundsAtBoundary(balance, amount) == balance <= amount

InsufficientFunds(balance, amount) == balance < amount

WithdrawCall(p, number, amount, description) ==
    /\ pc[p] = "idle"
    /\ Len(View(p).transactions) < MaxTxns
    /\ req' = [req EXCEPT ![p] = [NoReq EXCEPT !.op = "withdraw",
                  !.account_number = number, !.amount = amount,
                  !.description = description]]
    /\ pre' = [pre EXCEPT ![p] = Snapshot(p)]
    /\ IF amount <= 0
       THEN /\ Return(p, "Withdrawal amount must be positive")
            /\ UNCHANGED <<disk, conn>>
       ELSE /\ connect(p)
            /\ IF SelectAccount(View(p), number) = NoRow
               THEN Return(p, "Account not found")
               ELSE IF InsufficientFunds(SelectAccount(View(p), number).balance, amount)
               THEN Return(p, "Insufficient funds")
               ELSE /\ loc' = [loc EXCEPT ![p].account = SelectAccount(View(p), number),
                                  ![p].new_balance =
                                      SelectAccount(View(p), number).balance - amount]
                    /\ Goto(p, "wd_update")
    /\ UNCHANGED <<work, inTxn, lock, now, faults>>

WithdrawUpdate(p) ==
    /\ pc[p] = "wd_update"
    /\ lock \in {0, p}
    /\ lock' = p
    /\ inTxn' = [inTxn EXCEPT ![p] = TRUE]
    /\ work' = [work EXCEPT ![p] =
            SqlUpdateBalance(Begin(p), req[p].account_number, loc[p].new_balance)]
    /\ Goto(p, "wd_insert")
    /\ UNCHANGED <<disk, conn, req, loc, pre, now, faults>>

WithdrawInsert(p) ==
    /\ pc[p] = "wd_insert"
    /\ work' = [work EXCEPT ![p] =
            SqlInsertTransaction(work[p], loc[p].account.id, "withdrawal",
                req[p].amount, loc[p].new_balance,
                IF req[p].description # "" THEN req[p].description ELSE "Withdrawal")]
    /\ Goto(p, "wd_commit")
    /\ UNCHANGED <<disk, inTxn, lock, conn, req, loc, pre, now, faults>>

WithdrawCommit(p) ==
    /\ pc[p] = "wd_commit"
    /\ Commit(p)
    /\ Returns(p, [account_number |-> req[p].account_number,
                   transaction_type |-> "withdrawal",
                   amount |-> req[p].amount,
                   new_balance |-> loc[p].new_balance])
    /\ UNCHANGED <<conn, req, pre, now, faults>>

Withdraw(p, inputs) ==
    \/ \E number \in AccountNumbers, a \in inputs :
            WithdrawCall(p, number, a.amount, a.description)
    \/ WithdrawUpdate(p)
    \/ WithdrawInsert(p)
    \/ WithdrawCommit(p)

(* ------------------------------ reads -------------------------------- *)
(* The order of a character in SQLite's BINARY collation. *)
Ord(c) == CASE c = " " -> 32 [] c = "a" -> 97 [] c = "b" -> 98

RECURSIVE StrLess(_, _)
StrLess(s, t) ==
    IF t = << >> THEN FALSE
    ELSE IF s = << >> THEN TRUE
    ELSE IF Ord(Head(s)) # Ord(Head(t)) THEN Ord(Head(s)) < Ord(Head(t))
    ELSE StrLess(Tail(s), Tail(t))

(* ORDER BY: SQLite feeds the rows to its sorter in scan order (rowid     *)
(* order here) and rows with equal keys come out in the order they went   *)
(* in.  `before` holds the pairs <<j, i>> of row positions whose keys put  *)
(* row j strictly before row i.                                           *)
OrderBy(rows, before) ==
    [k \in 1..Len(rows) |->
        rows[CHOOSE i \in 1..Len(rows) :
                Cardinality({j \in 1..Len(rows) :
                    \/ <<j, i>> \in before
                    \/ <<i, j>> \notin before /\ j < i}) = k - 1]]

(* Mutant: ORDER BY first_name, last_name *)
ByFirstNameFirst(rows) ==
    {ji \in (1..Len(rows)) \X (1..Len(rows)) :
        \/ StrLess(rows[ji[1]].first_name, rows[ji[2]].first_name)
        \/ /\ rows[ji[1]].first_name = rows[ji[2]].first_name
           /\ StrLess(rows[ji[1]].last_name, rows[ji[2]].last_name)}

(* ORDER BY last_name, first_name *)
ByName(rows) ==
    {ji \in (1..Len(rows)) \X (1..Len(rows)) :
        \/ StrLess(rows[ji[1]].last_name, rows[ji[2]].last_name)
        \/ /\ rows[ji[1]].last_name = rows[ji[2]].last_name
           /\ StrLess(rows[ji[1]].first_name, rows[ji[2]].first_name)}

(* ORDER BY t.created_at DESC *)
ByCreatedAtDesc(rows) ==
    {ji \in (1..Len(rows)) \X (1..Len(rows)) :
        rows[ji[1]].created_at > rows[ji[2]].created_at}

(* LIMIT ?: a negative limit is no limit. *)
SqlLimit(rows, limit) ==
    IF limit < 0 \/ limit >= Len(rows) THEN rows ELSE SubSeq(rows, 1, limit)

(* transactions t JOIN accounts a ON t.account_id = a.id                  *)
(* WHERE a.account_number = ?                                             *)
JoinTransactions(db, number) ==
    SelectSeq(db.transactions,
        LAMBDA t : \E i \in AccountRows(db, number) : db.accounts[i].id = t.account_id)

TransactionDict(t) ==
    [id |-> t.id, transaction_type |-> t.transaction_type, amount |-> t.amount,
     balance_after |-> t.balance_after, description |-> t.description,
     created_at |-> t.created_at]

SelectTransactions(db, number, limit) ==
    LET joined == JoinTransactions(db, number)
        rows   == SqlLimit(OrderBy(joined, ByCreatedAtDesc(joined)), limit)
    IN  [k \in 1..Len(rows) |-> TransactionDict(rows[k])]

SelectAccounts(db) == OrderBy(db.accounts, ByName(db.accounts))

(* The database a SELECT of p runs on, after connect(). *)
Connected(p) == IF conn[p] THEN View(p) ELSE _initialize_schema(disk)

(* Mutant: the read stamps the rows it saw with the time of the access.   *)
ReadTouching(p, r, value) ==
    /\ pc[p] = "idle"
    /\ conn' = [conn EXCEPT ![p] = TRUE]
    /\ disk' = [Connected(p) EXCEPT !.accounts =
                    [i \in 1..Len(disk.accounts) |->
                        [disk.accounts[i] EXCEPT !.created_at = now]],
                 !.transactions =
                    [i \in 1..Len(disk.transactions) |->
                        [disk.transactions[i] EXCEPT !.created_at = now]]]
    /\ req' = [req EXCEPT ![p] = r]
    /\ pre' = [pre EXCEPT ![p] = Snapshot(p)]
    /\ res' = [res EXCEPT ![p] =
            [Outcome("ok", "idle") EXCEPT
                !.value  = value,
                !.opened = ~conn[p],
                !.again  = (req[p] = r /\ res[p].status = "ok"),
                !.first  = IF req[p] = r /\ res[p].status = "ok"
                           THEN [value |-> res[p].value, opened |-> res[p].opened]
                           ELSE NoValue]]
    /\ UNCHANGED <<work, inTxn, lock, pc, loc, now, faults>>

(* Mutant: the read prunes the transactions recorded before this second.  *)
ReadPruning(p, r, value) ==
    /\ pc[p] = "idle"
    /\ conn' = [conn EXCEPT ![p] = TRUE]
    /\ disk' = [Connected(p) EXCEPT !.transactions =
                    SelectSeq(disk.transactions, LAMBDA t : t.created_at = now)]
    /\ req' = [req EXCEPT ![p] = r]
    /\ pre' = [pre EXCEPT ![p] = Snapshot(p)]
    /\ res' = [res EXCEPT ![p] = [Outcome("ok", "idle") EXCEPT !.value = value]]
    /\ UNCHANGED <<work, inTxn, lock, pc, loc, now, faults>>

(* A read is one SELECT on the connection, opened on first use. *)
Read(p, r, value) ==
    /\ pc[p] = "idle"
    /\ connect(p)
    /\ req' = [req EXCEPT ![p] = r]
    /\ pre' = [pre EXCEPT ![p] = Snapshot(p)]
    /\ res' = [res EXCEPT ![p] =
            [Outcome("ok", "idle") EXCEPT
                !.value  = value,
                !.opened = ~conn[p],
                !.again  = (req[p] = r /\ res[p].status = "ok"),
                !.first  = IF req[p] = r /\ res[p].status = "ok"
                           THEN [value |-> res[p].value, opened |-> res[p].opened]
                           ELSE NoValue]]
    /\ UNCHANGED <<work, inTxn, lock, pc, loc, now, faults>>

(* get_account returns None for an unknown number: NoRow. *)
GetAccount(p, number) ==
    Read(p, [NoReq EXCEPT !.op = "get_account", !.account_number = number],
         SelectAccount(Connected(p), number))

ListAccounts(p) ==
    Read(p, [NoReq EXCEPT !.op = "list_accounts"], SelectAccounts(Connected(p)))

GetTransactions(p, number, limit) ==
    Read(p, [NoReq EXCEPT !.op = "get_transactions", !.account_number = number,
                          !.limit = limit],
         SelectTransactions(Connected(p), number, limit))

Reads(p) ==
    \/ \E number \in AccountNumbers : GetAccount(p, number)
    \/ ListAccounts(p)
    \/ \E number \in AccountNumbers, limit \in Limits :
            GetTransactions(p, number, limit)

(* ------------------------ currency registry -------------------------- *)
CurrencyCodes == {"USD", "BB", "ZZZ", "usd", ""}

(* A call of one of the three module functions of currency.py. *)
RegistryCall(p, op, code, outcome) ==
    /\ pc[p] = "idle"
    /\ req' = [req EXCEPT ![p] = [NoReq EXCEPT !.op = op, !.currency = code]]
    /\ pre' = [pre EXCEPT ![p] = Snapshot(p)]
    /\ res' = [res EXCEPT ![p] =
            [Outcome(outcome.status, "idle") EXCEPT !.value = outcome.value]]
    /\ UNCHANGED <<disk, work, inTxn, lock, conn, pc, loc, now, faults>>

Registry(p) ==
    \/ \E code \in CurrencyCodes :
            RegistryCall(p, "get_currency", code, get_currency(code))
    \/ \E code \in CurrencyCodes :
            RegistryCall(p, "is_valid_currency", code,
                         [status |-> "ok", value |-> is_valid_currency(code)])
    \/ RegistryCall(p, "get_available_currencies", "",
                    [status |-> "ok", value |-> get_available_currencies])

(* ------------------------------ printing ----------------------------- *)
(* An exception with its message: the literal parts of the message, then   *)
(* the text that follows them.  raised = "none" is a normal return.        *)
Exc(type, prefix, text) ==
    [raised |-> type, message |-> [prefix |-> prefix, text |-> text]]

NoExc == Exc("none", << >>, << >>)

(* The character of a code point, for the code points the model uses. *)
Chr(cp) ==
    IF cp = 32 THEN " "
    ELSE IF cp = 80 THEN "P"
    ELSE IF cp = 233 THEN "e-acute"
    ELSE "other"

(* bytes.decode("utf-8"): one-byte characters below 0x80, a lead byte      *)
(* 0xC2..0xDF with one continuation byte 0x80..0xBF; every other byte      *)
(* sequence of the model's alphabet is a UnicodeDecodeError.               *)
RECURSIVE Utf8Decode(_)
Utf8Decode(bytes) ==
    IF bytes = << >> THEN [error |-> FALSE, text |-> << >>]
    ELSE IF Head(bytes) < 128
    THEN LET rest == Utf8Decode(Tail(bytes))
         IN  [error |-> rest.error,
              text  |-> IF rest.error THEN << >>
                        ELSE <<Chr(Head(bytes))>> \o rest.text]
    ELSE IF /\ Head(bytes) \in 194..223
            /\ Len(bytes) >= 2
            /\ bytes[2] \in 128..191
    THEN LET rest == Utf8Decode(Tail(Tail(bytes)))
         IN  [error |-> rest.error,
              text  |-> IF rest.error THEN << >>
                        ELSE <<Chr((Head(bytes) - 192) * 64 + (bytes[2] - 128))>>
                             \o rest.text]
    ELSE [error |-> TRUE, text |-> << >>]

(* What the spooler wrote to stderr: nothing, "P", " P ", "P" and e-acute  *)
(* in UTF-8, "P" and e-acute in Latin-1.                                   *)
StderrBytes == {<< >>, <<80>>, <<32, 80, 32>>, <<80, 195, 169>>, <<80, 233>>}

(* How subprocess.run(["lp"], ...) ends: the command exits with a return   *)
(* code, or the call raises.                                               *)
SpoolerOutcomes ==
    {[kind |-> "exit", returncode |-> rc, stderr |-> e] :
        rc \in {0, 1}, e \in StderrBytes}
    \cup {[kind |-> k, returncode |-> 0, stderr |-> << >>] :
            k \in {"TimeoutExpired", "FileNotFoundError", "PermissionError"}}

(* The body of print_document's try block. *)
RunLp(run) ==
    IF run.kind # "exit" THEN Exc(run.kind, <<run.kind>>, << >>)
    ELSE IF run.returncode = 0 THEN NoExc
    ELSE LET decoded == Utf8Decode(run.stderr)
         IN  IF decoded.error
             THEN Exc("UnicodeDecodeError", <<"'utf-8' codec can't decode byte">>, << >>)
             ELSE Exc("PrinterError", <<"Print failed: ">>, Strip(decoded.text))

(* Mutant: print_document without its last handler, except Exception. *)
print_document_NoCatchAll(run) ==
    LET e == RunLp(run)
    IN  IF e.raised = "none" THEN NoExc
        ELSE IF e.raised = "TimeoutExpired"
        THEN Exc("PrinterError", <<"Print command timed out">>, << >>)
        ELSE IF e.raised = "FileNotFoundError"
        THEN Exc("PrinterError",
                 <<"lp command not found. Ensure CUPS is installed.">>, << >>)
        ELSE e

(* print_document: the handlers of the try block, in their order; the      *)
(* PrinterError raised inside the block reaches the last handler too.      *)
print_document(run) ==
    LET e == RunLp(run)
    IN  IF e.raised = "none" THEN NoExc
        ELSE IF e.raised = "TimeoutExpired"
        THEN Exc("PrinterError", <<"Print command timed out">>, << >>)
        ELSE IF e.raised = "FileNotFoundError"
        THEN Exc("PrinterError",
                 <<"lp command not found. Ensure CUPS is installed.">>, << >>)
        ELSE Exc("PrinterError", <<"Print error: ">> \o e.message.prefix,
                 e.message.text)

(* Mutant: a failed submission is tried once more. *)
SubmissionsRetried(content, run) ==
    IF RunLp(run).raised = "none" THEN <<content>> ELSE <<content, content>>

(* The documents print_document hands to lp, one per subprocess.run call:  *)
(* the call is made once, outside any loop, whatever its outcome.          *)
Submissions(content, run) == <<content>>

(* The fields a receipt carries. *)
format_receipt(account, transaction, transaction_id) ==
    [document         |-> "TRANSACTION RECEIPT",
     transaction_id   |-> transaction_id,
     first_name       |-> account.first_name,
     last_name        |-> account.last_name,
     account_number   |-> account.account_number,
     account_type     |-> account.account_type,
     currency         |-> get_currency(account.currency).value.code,
     transaction_type |-> transaction.transaction_type,
     amount           |-> transaction.amount,
     new_balance      |-> transaction.new_balance]

(* The fields a statement carries. *)
format_statement(account, transactions) ==
    [document       |-> "ACCOUNT STATEMENT",
     first_name     |-> account.first_name,
     last_name      |-> account.last_name,
     account_number |-> account.account_number,
     account_type   |-> account.account_type,
     currency       |-> get_currency(account.currency).value.code,
     balance        |-> account.balance,
     transactions   |-> [k \in 1..Len(transactions) |->
                            [created_at       |-> transactions[k].created_at,
                             transaction_type |-> transactions[k].transaction_type,
                             amount           |-> transactions[k].amount,
                             balance_after    |-> transactions[k].balance_after]]]

(* None where a row id is expected: row ids start at 1. *)
NoId == 0

(* dict.get(key): the value under the key, None when the key is absent. *)
DictGet(d, key, none) == IF key \in DOMAIN d THEN d[key] ELSE none

(* What a print handler of the app leaves behind: the spooler outcome it   *)
(* met, whether lp was run, the document sent, and the message shown.      *)
PrintValue(run, sent, content, transaction, shown, is_error) ==
    [run |-> run, sent |-> sent, content |-> content,
     transaction |-> transaction,
     transaction_id |-> DictGet(transaction, "transaction_id", NoId),
     document |-> IF sent THEN print_document(run) ELSE NoExc,
     submitted |-> IF sent THEN Submissions(content, run) ELSE << >>,
     shown |-> shown, is_error |-> is_error]

NoTransaction ==
    [account_number |-> << >>, transaction_type |-> "", amount |-> 0,
     new_balance |-> 0]

(* try: Printer.print_...(...) / except PrinterError in the app: a         *)
(* PrinterError is shown as a message, any other exception leaves the      *)
(* handler.                                                                *)
PrintHandler(p, r, account, content, transaction, run) ==
    LET e == print_document(run)
    IN  /\ pc[p] = "idle"
        /\ connect(p)
        /\ req' = [req EXCEPT ![p] = r]
        /\ pre' = [pre EXCEPT ![p] = Snapshot(p)]
        /\ res' = [res EXCEPT ![p] =
              IF account = NoRow
              THEN [Outcome("ok", "idle") EXCEPT !.value =
                      PrintValue(run, FALSE, << >>, transaction,
                                 Exc("none", << >>, << >>).message, FALSE)]
              ELSE IF e.raised = "none"
              THEN [Outcome("ok", "idle") EXCEPT !.value =
                      PrintValue(run, TRUE, content, transaction,
                                 Exc("none", <<"sent to printer">>, << >>).message,
                                 FALSE)]
              ELSE IF e.raised = "PrinterError"
              THEN [Outcome("ok", "idle") EXCEPT !.value =
                      PrintValue(run, TRUE, content, transaction,
                                 [prefix |-> <<"Print failed: ">> \o e.message.prefix,
                                  text   |-> e.message.text], TRUE)]
              ELSE [Outcome(e.raised, "idle") EXCEPT !.value =
                      PrintValue(run, TRUE, content, transaction,
                                 Exc("none", << >>, << >>).message, FALSE)]]
        /\ UNCHANGED <<work, inTxn, lock, pc, loc, now, faults>>

(* The confirmation screen is up: a deposit or withdrawal has just         *)
(* returned, or a receipt was asked for on that screen.                    *)
ConfirmationShown(p) ==
    \/ req[p].op \in {"deposit", "withdraw"} /\ res[p].status = "ok"
    \/ req[p].op = "print_receipt"

(* TransactionConfirmationScreen.print_receipt: the transaction is the     *)
(* dict deposit/withdraw returned, its id result.get("transaction_id").    *)
PrintReceipt(p, run) ==
    /\ ConfirmationShown(p)
    /\ LET transaction == IF req[p].op = "print_receipt"
                          THEN res[p].value.transaction ELSE res[p].value
           account     == SelectAccount(Connected(p), req[p].account_number)
       IN  PrintHandler(p,
              [NoReq EXCEPT !.op = "print_receipt",
                            !.account_number = req[p].account_number],
              account,
              IF account = NoRow THEN << >>
              ELSE format_receipt(account, transaction,
                                  DictGet(transaction, "transaction_id", NoId)),
              transaction, run)

StatementLimit == 20

(* AccountDetailScreen.action_print_statement *)
PrintStatement(p, number, run) ==
    LET account      == SelectAccount(Connected(p), number)
        transactions == SelectTransactions(Connected(p), number, StatementLimit)
    IN  PrintHandler(p,
           [NoReq EXCEPT !.op = "print_statement", !.account_number = number],
           account,
           IF account = NoRow THEN << >>
           ELSE format_statement(account, transactions),
           NoTransaction, run)

Prints(p) ==
    \/ \E run \in SpoolerOutcomes : PrintReceipt(p, run)
    \/ \E number \in AccountNumbers, run \in SpoolerOutcomes :
            PrintStatement(p, number, run)

(* --------------------------- environment ----------------------------- *)
FirstWrites  == {"ca_insert", "dep_update", "wd_update"}
SecondWrites == {"ca_initial", "dep_insert", "wd_insert"}
Uncommitted  == SecondWrites \cup {"ca_commit", "dep_commit", "wd_commit"}

(* cursor.execute raises sqlite3.Error (or the binding of a parameter     *)
(* fails): the exception leaves the handler, which has no rollback; the   *)
(* transaction sqlite3 opened for the statement stays open.               *)
StoreFailure(p) ==
    /\ pc[p] \in SecondWrites
    /\ faults < MaxFaults
    /\ faults' = faults + 1
    /\ Return(p, "StoreError")
    /\ UNCHANGED <<disk, work, inTxn, lock, conn, req, pre, now>>

(* The process dies and is started again: the connection and its open     *)
(* transaction are gone, SQLite's journal restores the committed file.    *)
Crash(p) ==
    /\ pc[p] \in Uncommitted
    /\ conn'  = [conn EXCEPT ![p] = FALSE]
    /\ inTxn' = [inTxn EXCEPT ![p] = FALSE]
    /\ work'  = [work EXCEPT ![p] = EmptyDb]
    /\ lock'  = IF lock = p THEN 0 ELSE lock
    /\ faults < MaxFaults
    /\ faults' = faults + 1
    /\ Return(p, "crashed")
    /\ UNCHANGED <<disk, req, pre, now>>

(* A data-modifying statement of p finds the write lock held by another   *)
(* connection until the busy timeout expires: sqlite3.OperationalError.   *)
(* The transaction sqlite3 had begun for the statement holds no change    *)
(* and no lock, so p goes on seeing the committed database.               *)
Busy(p) ==
    /\ pc[p] \in FirstWrites
    /\ lock \notin {0, p}
    /\ Return(p, "OperationalError")
    /\ UNCHANGED <<disk, work, inTxn, lock, conn, req, pre, now, faults>>

(* Database.close between two calls: the connection is closed, the next   *)
(* connect() opens a new one; an open transaction is rolled back.         *)
Close(p) ==
    /\ pc[p] = "idle"
    /\ conn[p]
    /\ conn'  = [conn EXCEPT ![p] = FALSE]
    /\ inTxn' = [inTxn EXCEPT ![p] = FALSE]
    /\ work'  = [work EXCEPT ![p] = EmptyDb]
    /\ lock'  = IF lock = p THEN 0 ELSE lock
    /\ UNCHANGED <<disk, pc, req, loc, res, pre, now, faults>>

(* A second passes: CURRENT_TIMESTAMP has the resolution of one second.   *)
Tick ==
    /\ now < MaxTime
    /\ now' = now + 1
    /\ UNCHANGED <<disk, work, inTxn, lock, conn, pc, req, loc, res, pre, faults>>

Next ==
    \/ \E p \in SeqProcs :
        \/ CreateAccount(p, CreateInputs)
        \/ Deposit(p, TxnInputs)
        \/ Withdraw(p, TxnInputs)
        \/ StoreFailure(p)
        \/ Crash(p)

Spec == Init /\ [][Next]_vars

NextConc ==
    \E p \in Procs :
        \/ CreateAccount(p, ValidCreateInputs)
        \/ Deposit(p, PositiveTxnInputs)
        \/ Withdraw(p, PositiveTxnInputs)
        \/ Busy(p)

SpecConc == Init /\ [][NextConc]_vars

(* The interactive process with its reads, over wall-clock time. *)
NextReads ==
    \/ \E p \in SeqProcs :
        \/ CreateAccount(p, ValidCreateInputs)
        \/ Deposit(p, PositiveTxnInputs)
        \/ Withdraw(p, PositiveTxnInputs)
        \/ Reads(p)
        \/ Close(p)
    \/ Tick

SpecReads == Init /\ [][NextReads]_vars

(* The interactive process over the life of the database file: calls,    *)
(* reads, close and reopen, and crashes.                                  *)
NextStore ==
    \E p \in SeqProcs :
        \/ CreateAccount(p, ValidCreateInputs)
        \/ Deposit(p, PositiveTxnInputs)
        \/ Withdraw(p, PositiveTxnInputs)
        \/ Reads(p)
        \/ Close(p)
        \/ Crash(p)

SpecStore == Init /\ [][NextStore]_vars

(* The interactive process with the print option of its screens. *)
NextPrint ==
    \E p \in SeqProcs :
        \/ CreateAccount(p, ValidCreateInputs)
        \/ Deposit(p, PositiveTxnInputs)
        \/ Withdraw(p, PositiveTxnInputs)
        \/ Prints(p)
        \/ Close(p)

SpecPrint == Init /\ [][NextPrint]_vars

(* The interactive process with every input, valid or not, and a store    *)
(* that does not fail.                                                    *)
NextData ==
    \E p \in SeqProcs :
        \/ CreateAccount(p, CreateInputs)
        \/ Deposit(p, TxnInputs)
        \/ Withdraw(p, TxnInputs)

SpecData == Init /\ [][NextData]_vars

(* The account list of the main screen between creations and deposits. *)
NextList ==
    \E p \in SeqProcs :
        \/ CreateAccount(p, NamedCreateInputs)
        \/ Deposit(p, PositiveTxnInputs)
        \/ ListAccounts(p)
        \/ Close(p)

SpecList == Init /\ [][NextList]_vars

(* The currency registry next to the calls that consult it. *)
NextRegistry ==
    \E p \in SeqProcs :
        \/ CreateAccount(p, CreateInputs)
        \/ Registry(p)

SpecRegistry == Init /\ [][NextRegistry]_vars

(* The interactive process once a call is under way: every statement of   *)
(* the handler is executed in turn, nothing else runs in the process.     *)
Progress(p) ==
    \/ GenerateAccountNumber(p)
    \/ CreateInsertAccount(p)
    \/ CreateInsertInitial(p)
    \/ CreateCommit(p)
    \/ DepositUpdate(p)
    \/ DepositInsert(p)
    \/ DepositCommit(p)
    \/ WithdrawUpdate(p)
    \/ WithdrawInsert(p)
    \/ WithdrawCommit(p)

NextLive ==
    \E p \in SeqProcs :
        \/ CreateAccount(p, ValidCreateInputs)
        \/ Deposit(p, PositiveTxnInputs)
        \/ Withdraw(p, PositiveTxnInputs)
        \/ Reads(p)

(* A draw of a number in use changes nothing, so weak fairness of the     *)
(* process's steps is the fair random choice: while an unused number      *)
(* exists, it is eventually drawn.                                        *)
SpecLive ==
    Init /\ [][NextLive]_vars /\ \A p \in SeqProcs : WF_vars(Progress(p))

(* ======================= properties of the ledger ====================== *)
Idle(p) == pc[p] = "idle"

Databases == {disk} \cup {work[p] : p \in {q \in Procs : inTxn[q]}}

Finished(p) == Idle(p) /\ res[p].status \notin {"none", "pending", "crashed"}

Failed(p) == Finished(p) /\ res[p].status # "ok"

LedgerUnchanged(p) ==
    /\ Ledger(View(p)) = pre[p].view
    /\ Ledger(disk) = pre[p].disk

RECURSIVE SignedSum(_, _)
SignedSum(txns, account_id) ==
    IF txns = << >> THEN 0
    ELSE SignedSum(Tail(txns), account_id) +
         (IF Head(txns).account_id # account_id THEN 0
          ELSE IF Head(txns).transaction_type = "deposit" THEN Head(txns).amount
          ELSE 0 - Head(txns).amount)

History(db, account_id) ==
    SelectSeq(db.transactions, LAMBDA t : t.account_id = account_id)

(* C1: every stored balance, committed or in an open transaction, is >= 0. *)
NonNegativeBalance ==
    \A db \in Databases : \A i \in 1..Len(db.accounts) : db.accounts[i].balance >= 0

NonNegativeBalance_Witness ==
    \E p \in SeqProcs :
        /\ Finished(p) /\ res[p].status = "ok" /\ req[p].op = "withdraw"
        /\ SelectAccount(pre[p].view, req[p].account_number).balance = req[p].amount
        /\ SelectAccount(disk, req[p].account_number).balance = 0

(* C2: between calls, every account's balance is the sum of its deposits   *)
(* minus the sum of its withdrawals.                                        *)
Conservation ==
    \A p \in SeqProcs : Idle(p) =>
        \A db \in {disk, View(p)} : \A i \in 1..Len(db.accounts) :
            db.accounts[i].balance = SignedSum(db.transactions, db.accounts[i].id)

(* C3: a caller that has written a new balance computed it from the        *)
(* balance that was committed when it wrote: no write is based on a read   *)
(* that another caller's commit has made stale.                            *)
NoStaleWrite ==
    \A p \in Procs :
        pc[p] \in {"dep_insert", "dep_commit", "wd_insert", "wd_commit"} =>
            loc[p].account.balance = SelectAccount(disk, req[p].account_number).balance

(* C4: after a crash between the balance write and the commit of a deposit *)
(* or withdraw, the database file holds the account as it was committed    *)
(* before the call, or as the call would have committed it: balance and    *)
(* history together.                                                       *)
AccountState(db, number) ==
    [balance |-> SelectAccount(db, number).balance,
     history |-> History(db, SelectAccount(db, number).id)]

PostState(db, r) ==
    LET a  == SelectAccount(db, r.account_number)
        nb == IF r.op = "deposit" THEN a.balance + r.amount ELSE a.balance - r.amount
    IN  [balance |-> nb,
         history |-> Append(History(db, a.id),
            [id |-> Len(db.transactions) + 1, account_id |-> a.id,
             transaction_type |-> IF r.op = "deposit" THEN "deposit" ELSE "withdrawal",
             amount |-> r.amount, balance_after |-> nb,
             description |-> IF r.description # "" THEN r.description
                             ELSE IF r.op = "deposit" THEN "Deposit" ELSE "Withdrawal",
             created_at |-> now])]

CrashedInUnit(p) ==
    /\ Idle(p) /\ res[p].status = "crashed"
    /\ req[p].op \in {"deposit", "withdraw"}
    /\ res[p].at \in Uncommitted

CrashAtomicity ==
    \A p \in SeqProcs : CrashedInUnit(p) =>
        AccountState(disk, req[p].account_number) \in
            {AccountState(pre[p].disk, req[p].account_number),
             PostState(pre[p].disk, req[p])}

CrashAtomicity_Witness ==
    \E p \in SeqProcs : CrashedInUnit(p) /\ res[p].at \in SecondWrites

(* C5: no two stored accounts share an identifier, in the database file    *)
(* and in every open transaction, also when creators race on a candidate.  *)
UniqueIdentifiers ==
    \A db \in Databases : \A i, j \in 1..Len(db.accounts) :
        i # j => db.accounts[i].account_number # db.accounts[j].account_number

UniqueIdentifiers_Witness ==
    \E p \in Procs : Idle(p) /\ req[p].op = "create_account"
                     /\ res[p].status = "IntegrityError"

(* C6: between calls, every account's balance is the balance_after of its  *)
(* most recently recorded transaction, and zero when it has none.          *)
BalanceIsLastBalanceAfter ==
    \A p \in SeqProcs : Idle(p) =>
        \A db \in {disk, View(p)} : \A i \in 1..Len(db.accounts) :
            LET h == History(db, db.accounts[i].id)
            IN  db.accounts[i].balance =
                    IF h = << >> THEN 0 ELSE h[Len(h)].balance_after

(* C7: a withdraw of a positive amount larger than the balance of an       *)
(* existing account fails with "Insufficient funds" and changes nothing.   *)
WithdrawExceeding(p) ==
    /\ Idle(p) /\ req[p].op = "withdraw" /\ res[p].status # "crashed"
    /\ req[p].amount > 0
    /\ SelectAccount(pre[p].view, req[p].account_number) # NoRow
    /\ SelectAccount(pre[p].view, req[p].account_number).balance < req[p].amount

InsufficientFundsRejected ==
    \A p \in SeqProcs : WithdrawExceeding(p) =>
        res[p].status = "Insufficient funds" /\ LedgerUnchanged(p)

InsufficientFundsRejected_Witness ==
    \E p \in SeqProcs :
        /\ WithdrawExceeding(p)
        /\ SelectAccount(pre[p].view, req[p].account_number).balance > 0

(* C8: a call that ended in an error left accounts, balances and           *)
(* transactions as they were when it began, in the caller's view and in    *)
(* the database file.                                                      *)
ErrorsLeaveLedgerUnchanged ==
    \A p \in SeqProcs : Failed(p) => LedgerUnchanged(p)

(* C9: after the store failed on the second write of a unit, the unit's    *)
(* first write is not visible on the same connection: the balance is the   *)
(* one before the call, and a created account does not exist.              *)
FailedOnSecondWrite(p) ==
    Idle(p) /\ res[p].status = "StoreError" /\ res[p].at \in SecondWrites

NoPartialWriteVisible ==
    \A p \in SeqProcs : FailedOnSecondWrite(p) =>
        /\ Len(View(p).accounts) = Len(pre[p].view.accounts)
        /\ req[p].op \in {"deposit", "withdraw"} =>
              SelectAccount(View(p), req[p].account_number).balance =
                  SelectAccount(pre[p].view, req[p].account_number).balance

(* C10: create_account is rejected by its validation exactly when a name   *)
(* is empty after trimming, the category is not checking or savings, the   *)
(* currency is not registered or the initial deposit is negative; a        *)
(* rejected call writes no account and no transaction.                     *)
CreateArgumentErrors ==
    {"First name is required", "Last name is required",
     "Account type must be 'checking' or 'savings'", "Invalid currency",
     "Initial deposit cannot be negative"}

InvalidCreateArguments(r) ==
    \/ Strip(r.first_name) = << >>
    \/ Strip(r.last_name) = << >>
    \/ r.account_type \notin {"checking", "savings"}
    \/ r.currency \notin {"USD", "BB"}
    \/ r.initial_deposit < 0

CreateRejectedExactly ==
    \A p \in SeqProcs :
        req[p].op = "create_account" /\ res[p].status # "crashed" =>
            /\ res[p].status \in CreateArgumentErrors <=> InvalidCreateArguments(req[p])
            /\ InvalidCreateArguments(req[p]) => Idle(p) /\ LedgerUnchanged(p)

CreateRejectedExactly_Witness ==
    \E p \in SeqProcs :
        /\ Idle(p) /\ req[p].op = "create_account"
        /\ req[p].first_name = <<" ">>
        /\ res[p].status = "First name is required"
        /\ Len(disk.accounts) > 0

(* C11: a successful create_account with initial_deposit > 0 leaves the    *)
(* new account with balance = initial_deposit and exactly one transaction  *)
(* (deposit, amount = balance_after = initial_deposit, "Initial deposit"); *)
(* with initial_deposit = 0 the account has balance 0 and no transaction.  *)
(* Until the call's single commit the database file holds neither the      *)
(* account nor the transaction.                                            *)
CreateSucceeded(p) ==
    Idle(p) /\ req[p].op = "create_account" /\ res[p].status = "ok"

InitialDepositRecorded ==
    \A p \in SeqProcs :
        /\ CreateSucceeded(p) =>
              LET a == SelectAccount(disk, res[p].value.account_number)
                  h == History(disk, a.id)
                  d == req[p].initial_deposit
              IN  /\ a # NoRow
                  /\ a.id = res[p].value.id
                  /\ a.balance = d
                  /\ SelectAccount(pre[p].disk, a.account_number) = NoRow
                  /\ View(p) = disk
                  /\ IF d > 0
                     THEN /\ Len(h) = 1
                          /\ h[1].transaction_type = "deposit"
                          /\ h[1].amount = d
                          /\ h[1].balance_after = d
                          /\ h[1].description = "Initial deposit"
                     ELSE h = << >>
        /\ pc[p] \in {"ca_initial", "ca_commit"} =>
              /\ SelectAccount(disk, loc[p].account_number) = NoRow
              /\ History(disk, loc[p].account_id) = << >>

InitialDepositRecorded_Witness ==
    \E p \in SeqProcs :
        /\ CreateSucceeded(p)
        /\ req[p].initial_deposit > 0
        /\ Len(History(disk, res[p].value.id)) = 1
        /\ Len(pre[p].disk.accounts) > 0

(* C12: a successful deposit on an account with balance b stores b +       *)
(* amount, appends exactly one transaction (deposit, the amount,           *)
(* balance_after = b + amount) and returns the account number, "deposit",  *)
(* the amount and b + amount; the returned new balance is the balance      *)
(* get_account reads next.                                                 *)
DepositSucceeded(p) ==
    Idle(p) /\ req[p].op = "deposit" /\ res[p].status = "ok"

IsPrefix(s, t) == Len(s) <= Len(t) /\ SubSeq(t, 1, Len(s)) = s

DepositContract ==
    \A p \in SeqProcs : DepositSucceeded(p) =>
        LET n  == req[p].account_number
            b  == SelectAccount(pre[p].view, n).balance
            a  == SelectAccount(View(p), n)
            h0 == History(pre[p].view, a.id)
            h  == History(View(p), a.id)
        IN  /\ a.balance = b + req[p].amount
            /\ Len(View(p).transactions) = Len(pre[p].view.transactions) + 1
            /\ h = Append(h0, h[Len(h)])
            /\ h[Len(h)].transaction_type = "deposit"
            /\ h[Len(h)].amount = req[p].amount
            /\ h[Len(h)].balance_after = b + req[p].amount
            /\ res[p].value = [account_number |-> n, transaction_type |-> "deposit",
                               amount |-> req[p].amount,
                               new_balance |-> b + req[p].amount]
            /\ res[p].value.new_balance = SelectAccount(Connected(p), n).balance
            /\ View(p) = disk

DepositContract_Witness ==
    \E p \in SeqProcs :
        /\ DepositSucceeded(p)
        /\ SelectAccount(pre[p].view, req[p].account_number).balance > 0
        /\ res[p].value.new_balance = MaxBalance

(* C13: a withdraw of 0 < amount <= b from an existing account with        *)
(* balance b that the store carries out succeeds, also for amount = b; it  *)
(* stores b - amount and appends exactly one transaction (withdrawal, the  *)
(* amount, balance_after = b - amount).                                    *)
WithdrawWithinBalance(p) ==
    /\ Idle(p) /\ req[p].op = "withdraw"
    /\ res[p].status \notin {"crashed", "StoreError"}
    /\ req[p].amount > 0
    /\ SelectAccount(pre[p].view, req[p].account_number) # NoRow
    /\ req[p].amount <= SelectAccount(pre[p].view, req[p].account_number).balance

WithdrawContract ==
    \A p \in SeqProcs : WithdrawWithinBalance(p) =>
        LET n  == req[p].account_number
            b  == SelectAccount(pre[p].view, n).balance
            a  == SelectAccount(View(p), n)
            h0 == History(pre[p].view, a.id)
            h  == History(View(p), a.id)
        IN  /\ res[p].status = "ok"
            /\ a.balance = b - req[p].amount
            /\ Len(View(p).transactions) = Len(pre[p].view.transactions) + 1
            /\ h = Append(h0, h[Len(h)])
            /\ h[Len(h)].transaction_type = "withdrawal"
            /\ h[Len(h)].amount = req[p].amount
            /\ h[Len(h)].balance_after = b - req[p].amount

WithdrawContract_Witness ==
    \E p \in SeqProcs :
        /\ WithdrawWithinBalance(p)
        /\ req[p].amount = SelectAccount(pre[p].view, req[p].account_number).balance
        /\ History(disk, SelectAccount(disk, req[p].account_number).id) # << >>
        /\ SelectAccount(disk, req[p].account_number).balance = 0
        /\ res[p].value.new_balance = 0

(* C14: deposit and withdraw with amount <= 0 raise the amount error       *)
(* whether or not the account number resolves; with amount > 0 and an      *)
(* unknown number they raise "Account ... not found"; the three messages   *)
(* (amount, unknown account, insufficient funds) are raised in disjoint    *)
(* cases.                                                                  *)
AmountError(op) ==
    IF op = "deposit" THEN "Deposit amount must be positive"
    ELSE "Withdrawal amount must be positive"

TransferReturned(p) ==
    /\ Idle(p) /\ req[p].op \in {"deposit", "withdraw"}
    /\ res[p].status \notin {"crashed", "StoreError"}

Resolves(p) == SelectAccount(pre[p].view, req[p].account_number) # NoRow

ArgumentErrorsOrdered ==
    \A p \in SeqProcs : TransferReturned(p) =>
        /\ res[p].status = AmountError(req[p].op) <=> req[p].amount <= 0
        /\ res[p].status = "Account not found" <=>
                req[p].amount > 0 /\ ~Resolves(p)
        /\ res[p].status = "Insufficient funds" =>
                req[p].amount > 0 /\ Resolves(p)

ArgumentErrorsOrdered_Witness ==
    \E p \in SeqProcs :
        /\ TransferReturned(p)
        /\ req[p].op = "deposit"
        /\ req[p].amount <= 0
        /\ ~Resolves(p)
        /\ Len(disk.accounts) > 0
        /\ res[p].status = "Deposit amount must be positive"

(* C15: get_transactions returns an account's transactions most recent    *)
(* first: of two returned entries the one recorded later (the larger row   *)
(* id) comes first, however little time passed between the two calls.      *)
MostRecentFirst ==
    \A p \in SeqProcs :
        Idle(p) /\ req[p].op = "get_transactions" /\ res[p].status = "ok" =>
            \A i, j \in 1..Len(res[p].value) :
                i < j => res[p].value[i].id > res[p].value[j].id

(* C16: a create_account call with valid arguments never ends with the     *)
(* store's duplicate-identifier rejection: the engine retries with a new   *)
(* candidate.                                                              *)
DuplicateIdentifierRetried ==
    \A p \in Procs :
        req[p].op = "create_account" /\ ~InvalidCreateArguments(req[p]) =>
            res[p].status # "IntegrityError"

(* C17: every call that has begun eventually returns or raises; in         *)
(* particular the loop of generate_account_number exits.                   *)
EveryCallReturns ==
    \A p \in SeqProcs : (pc[p] # "idle") ~> (pc[p] = "idle")

(* C18: transactions are append-only: at every moment the transactions     *)
(* recorded when the current call began are still there, unchanged and in  *)
(* the same order, with at most one new entry after them; a successful     *)
(* deposit or withdraw has added exactly one, for its account; a failed    *)
(* call and a read have added none.                                        *)
ReadOps == {"get_account", "list_accounts", "get_transactions"}

AppendOnly ==
    \A p \in SeqProcs :
        /\ IsPrefix(pre[p].view.transactions, View(p).transactions)
        /\ IsPrefix(pre[p].disk.transactions, disk.transactions)
        /\ Len(View(p).transactions) <= Len(pre[p].view.transactions) + 1
        /\ Len(disk.transactions) <= Len(pre[p].disk.transactions) + 1
        /\ Idle(p) /\ res[p].status = "ok" /\ req[p].op \in {"deposit", "withdraw"} =>
              /\ Len(disk.transactions) = Len(pre[p].disk.transactions) + 1
              /\ disk.transactions[Len(disk.transactions)].account_id =
                    SelectAccount(disk, req[p].account_number).id
              /\ View(p) = disk
        /\ Idle(p) /\ (Failed(p) \/ req[p].op \in ReadOps) =>
              /\ disk.transactions = pre[p].disk.transactions
              /\ View(p).transactions = pre[p].view.transactions

AppendOnly_Witness ==
    \E p \in SeqProcs :
        /\ Idle(p) /\ res[p].status = "ok" /\ req[p].op = "withdraw"
        /\ pre[p].disk.transactions # << >>
        /\ Len(disk.transactions) = Len(pre[p].disk.transactions) + 1
        /\ now > pre[p].disk.transactions[1].created_at

(* C19: get_account and get_transactions called twice in a row with the   *)
(* same arguments return the same value, also when the first of the two    *)
(* calls opened the connection.                                            *)
IdempotentReads ==
    \A p \in SeqProcs :
        res[p].again /\ req[p].op \in {"get_account", "get_transactions"} =>
            res[p].value = res[p].first.value

IdempotentReads_Witness ==
    \E p \in SeqProcs :
        /\ res[p].again /\ req[p].op = "get_transactions"
        /\ res[p].first.opened
        /\ Len(res[p].value) > 1

(* C20: get_account, list_accounts and get_transactions leave accounts,    *)
(* balances and transactions as they were, in the caller's view and in the *)
(* database file, for known and unknown account numbers.                   *)
ReadsLeaveLedgerUnchanged ==
    \A p \in SeqProcs : req[p].op \in ReadOps => Idle(p) /\ LedgerUnchanged(p)

ReadsLeaveLedgerUnchanged_Witness ==
    \E p \in SeqProcs :
        /\ req[p].op = "get_transactions" /\ res[p].opened
        /\ SelectAccount(disk, req[p].account_number) = NoRow
        /\ disk.transactions # << >>
        /\ now > disk.transactions[1].created_at

(* C21: an account in the database file stays there in every later state,  *)
(* in the same row, with the same identifier, names, category, currency    *)
(* and creation timestamp: no step removes it or gives its identifier to   *)
(* another row.                                                            *)
Identity(a) ==
    [id |-> a.id, account_number |-> a.account_number,
     first_name |-> a.first_name, last_name |-> a.last_name,
     account_type |-> a.account_type, currency |-> a.currency,
     created_at |-> a.created_at]

AccountsPersist ==
    [][\A i \in 1..Len(disk.accounts) :
          /\ i <= Len(disk'.accounts)
          /\ Identity(disk'.accounts[i]) = Identity(disk.accounts[i])
          /\ AccountRows(disk', disk.accounts[i].account_number) = {i}]_vars

AccountsPersist_Witness ==
    \E p \in SeqProcs :
        /\ Idle(p) /\ res[p].status = "crashed" /\ ~conn[p]
        /\ Len(disk.accounts) > 1
        /\ disk.transactions # << >>

(* C22: a read on a closed handle reopens the store and runs the schema    *)
(* initialisation again; the database file keeps every account and         *)
(* transaction committed before, and the read returns them.  A read on an  *)
(* open handle leaves the database file as it is.                          *)
ReadValue(db, r) ==
    CASE r.op = "get_account" -> SelectAccount(db, r.account_number)
      [] r.op = "list_accounts" -> SelectAccounts(db)
      [] r.op = "get_transactions" ->
            SelectTransactions(db, r.account_number, r.limit)

ReferentialIntegrity ==
    \A db \in Databases : \A k \in 1..Len(db.transactions) :
        \E i \in 1..Len(db.accounts) :
            db.accounts[i].id = db.transactions[k].account_id

ReferentialIntegrity_Witness ==
    \E p \in SeqProcs :
        /\ pc[p] = "dep_commit"
        /\ Len(work[p].accounts) > Len(disk.accounts)
        /\ work[p].transactions[Len(work[p].transactions)].account_id =
              Len(work[p].accounts)

(* C26: in each account's history, in recording order, every entry's       *)
(* balance_after is the balance_after of the entry before it (zero for the *)
(* first) plus its amount for a deposit, minus its amount for a            *)
(* withdrawal.                                                             *)
Signed(t) == IF t.transaction_type = "deposit" THEN t.amount ELSE 0 - t.amount

BalanceAfterChain ==
    \A db \in Databases : \A i \in 1..Len(db.accounts) :
        LET h == History(db, db.accounts[i].id)
        IN  \A k \in 1..Len(h) :
                h[k].balance_after =
                    (IF k = 1 THEN 0 ELSE h[k - 1].balance_after) + Signed(h[k])

(* C29: a deposit or withdraw on one account, successful or failed, leaves *)
(* every other account as it was when the call began: balance, attributes  *)
(* and transaction history, in the caller's view and in the database file. *)
OtherAccountsUnchanged ==
    \A p \in SeqProcs :
        Idle(p) /\ req[p].op \in {"deposit", "withdraw"} /\ res[p].status # "crashed" =>
            /\ \A i \in 1..Len(pre[p].view.accounts) :
                  pre[p].view.accounts[i].account_number # req[p].account_number =>
                      /\ View(p).accounts[i] = pre[p].view.accounts[i]
                      /\ History(View(p), i) = History(pre[p].view, i)
            /\ \A i \in 1..Len(pre[p].disk.accounts) :
                  pre[p].disk.accounts[i].account_number # req[p].account_number =>
                      /\ disk.accounts[i] = pre[p].disk.accounts[i]
                      /\ History(disk, i) = History(pre[p].disk, i)

(* C30: get_transactions with limit >= 0 returns min(limit, n) entries of  *)
(* the account's n transactions, and they are the min(limit, n) recorded   *)
(* last; for a number that matches no account it returns the empty list.   *)
Min(a, b) == IF a <= b THEN a ELSE b

LimitReturnsMostRecent ==
    \A p \in SeqProcs :
        req[p].op = "get_transactions" /\ req[p].limit >= 0 =>
            LET a == SelectAccount(pre[p].view, req[p].account_number)
                h == IF a = NoRow THEN << >> ELSE History(pre[p].view, a.id)
                m == Min(req[p].limit, Len(h))
            IN  /\ res[p].status = "ok"
                /\ Len(res[p].value) = m
                /\ {res[p].value[k].id : k \in 1..m} =
                      {h[k].id : k \in (Len(h) - m + 1)..Len(h)}

(* C28: with fair draws, a create_account call that is in the loop of      *)
(* generate_account_number while some candidate number is unused           *)
(* eventually returns; and the loop is left only with a number the store   *)
(* reported as unused.                                                     *)
SomeNumberUnused(p) ==
    \E n \in Candidates : SelectAccount(View(p), Str(n)) = NoRow

CreateReturnsWhenUnused ==
    /\ \A p \in SeqProcs :
          (pc[p] = "ca_generate" /\ SomeNumberUnused(p)) ~> (pc[p] = "idle")
    /\ [][\A p \in SeqProcs :
            pc[p] = "ca_generate" /\ pc'[p] # "ca_generate" =>
                /\ pc'[p] = "ca_insert"
                /\ SelectAccount(View(p), loc'[p].account_number) = NoRow]_vars

CreateReturnsWhenUnused_Witness ==
    \E p \in SeqProcs :
        /\ pc[p] = "ca_generate"
        /\ SomeNumberUnused(p)
        /\ \E n \in Candidates : SelectAccount(View(p), Str(n)) # NoRow

(* C25: the registry functions agree on one table: get_currency(code)      *)
(* succeeds, and returns a currency of that code, exactly when             *)
(* get_available_currencies lists a currency of that code, and fails with  *)
(* "Unknown currency" otherwise; is_valid_currency(code) is true exactly   *)
(* then; create_account rejects only currencies that are not listed, so   *)
(* every stored account has a listed currency; and the list holds USD and  *)
(* BB, and nothing else, in every state.                                   *)
Listed(code) ==
    \E k \in 1..Len(get_available_currencies) :
        get_available_currencies[k].code = code

RegistryAgrees ==
    \A p \in SeqProcs :
        /\ req[p].op = "get_currency" =>
              /\ res[p].status = "ok" <=> Listed(req[p].currency)
              /\ res[p].status = "ok" => res[p].value.code = req[p].currency
              /\ res[p].status # "ok" => res[p].status = "Unknown currency"
        /\ req[p].op = "is_valid_currency" =>
              (res[p].value <=> Listed(req[p].currency))
        /\ req[p].op = "get_available_currencies" =>
              /\ Len(res[p].value) = 2
              /\ {res[p].value[k].code : k \in 1..Len(res[p].value)} = {"USD", "BB"}
        /\ req[p].op = "create_account" =>
              (res[p].status = "Invalid currency" => ~Listed(req[p].currency))
        /\ \A i \in 1..Len(disk.accounts) : Listed(disk.accounts[i].currency)

RegistryAgrees_Witness ==
    \E p \in SeqProcs :
        /\ req[p].op = "get_currency" /\ req[p].currency = "usd"
        /\ res[p].status = "Unknown currency"
        /\ \E i \in 1..Len(disk.accounts) : disk.accounts[i].currency = "BB"

(* C23: a print attempt for a receipt or a statement, however the spooler  *)
(* ends, leaves every account and every transaction as it was, committed   *)
(* and as the connection sees them; the handler returns, and when the      *)
(* spooler did not exit with code 0 the failure is on the screen as a      *)
(* "Print failed: " message; the deposit or withdrawal whose receipt was   *)
(* asked for is still among the committed transactions of its account,     *)
(* and the account's committed balance is still the one it returned.       *)
SpoolerFailed(run) == ~(run.kind = "exit" /\ run.returncode = 0)

Recorded(db, transaction) ==
    \E k \in 1..Len(db.transactions) :
        LET t == db.transactions[k]
        IN  /\ \E i \in AccountRows(db, transaction.account_number) :
                    db.accounts[i].id = t.account_id
            /\ t.transaction_type = transaction.transaction_type
            /\ t.amount = transaction.amount
            /\ t.balance_after = transaction.new_balance

PrintLeavesLedger ==
    \A p \in SeqProcs :
        req[p].op \in {"print_receipt", "print_statement"} =>
            /\ Ledger(disk) = pre[p].disk
            /\ Ledger(View(p)) = pre[p].view
            /\ ~inTxn[p] /\ lock = 0
            /\ res[p].status = "ok"
            /\ res[p].value.sent /\ SpoolerFailed(res[p].value.run) =>
                  /\ res[p].value.is_error
                  /\ res[p].value.shown.prefix[1] = "Print failed: "
            /\ req[p].op = "print_receipt" =>
                  /\ Recorded(disk, res[p].value.transaction)
                  /\ Recorded(View(p), res[p].value.transaction)
                  /\ SelectAccount(disk, req[p].account_number).balance
                        = res[p].value.transaction.new_balance

PrintLeavesLedger_Witness ==
    \E p \in SeqProcs :
        /\ req[p].op = "print_receipt"
        /\ res[p].value.sent
        /\ res[p].value.run.kind = "PermissionError"
        /\ res[p].value.transaction.transaction_type = "withdrawal"
        /\ res[p].value.is_error

(* C24: print_document returns normally exactly when the spooler exits     *)
(* with code 0; in every other case it raises PrinterError and nothing     *)
(* else; and for a non-zero exit code the message has "Print failed: "     *)
(* with the spooler's stderr text right after it.                          *)
PrintDocumentContract ==
    \A p \in SeqProcs :
        req[p].op \in {"print_receipt", "print_statement"} /\ res[p].value.sent =>
            LET run == res[p].value.run
                e   == res[p].value.document
            IN  /\ e.raised = "none" <=> ~SpoolerFailed(run)
                /\ e.raised \in {"none", "PrinterError"}
                /\ run.kind = "exit" /\ run.returncode # 0 =>
                      /\ e.message.prefix # << >>
                      /\ e.message.prefix[Len(e.message.prefix)] = "Print failed: "
                      /\ e.message.text = Strip(Utf8Decode(run.stderr).text)

(* C31: when get_account(assigned number) is the call right after a        *)
(* successful create_account, the dict create_account returned has every   *)
(* field of the dict get_account returns, the creation timestamp           *)
(* included, with the same value.                                          *)
AccountFields ==
    {"id", "account_number", "first_name", "last_name", "account_type",
     "currency", "balance", "created_at"}

CreatedThenRead(p) ==
    /\ req[p].op = "create_account" /\ res[p].status = "ok" /\ pc[p] = "idle"
    /\ req'[p].op = "get_account"
    /\ req'[p].account_number = res[p].value.account_number

CreateSnapshotAgrees ==
    [][\A p \in SeqProcs : CreatedThenRead(p) =>
          \A f \in AccountFields :
              /\ f \in DOMAIN res[p].value
              /\ res[p].value[f] = res'[p].value[f]]_vars

(* C32: in every reachable state, committed or inside an open              *)
(* transaction, every account row has non-empty names without a leading    *)
(* or trailing blank, the type checking or savings, a currency the         *)
(* registry resolves and a number of six decimal digits from 100000 to     *)
(* 999999; every transaction row is a deposit or a withdrawal of an        *)
(* amount above zero.                                                      *)
IsDigit(c) == \E k \in 1..Len(DigitChars) : DigitChars[k] = c

DigitValue(c) == (CHOOSE k \in 1..Len(DigitChars) : DigitChars[k] = c) - 1

RECURSIVE ParseInt(_)
ParseInt(s) ==
    IF s = << >> THEN 0
    ELSE 10 * ParseInt(SubSeq(s, 1, Len(s) - 1)) + DigitValue(s[Len(s)])

Trimmed(s) == s # << >> /\ s[1] # " " /\ s[Len(s)] # " "

ValidAccountRow(a) ==
    /\ Trimmed(a.first_name) /\ Trimmed(a.last_name)
    /\ a.account_type \in {"checking", "savings"}
    /\ get_currency(a.currency).status = "ok"
    /\ Len(a.account_number) = 6
    /\ \A i \in 1..Len(a.account_number) : IsDigit(a.account_number[i])
    /\ ParseInt(a.account_number) \in 100000..999999

ValidTransactionRow(t) ==
    /\ t.transaction_type \in {"deposit", "withdrawal"}
    /\ t.amount > 0

NameBefore(a, b) ==
    \/ StrLess(a.last_name, b.last_name)
    \/ a.last_name = b.last_name /\ StrLess(a.first_name, b.first_name)

ListSorted ==
    \A p \in SeqProcs : req[p].op = "list_accounts" =>
        LET listed == res[p].value
        IN  /\ Len(listed) = Len(disk.accounts)
            /\ \A i \in 1..Len(disk.accounts) :
                  Cardinality({k \in 1..Len(listed) : listed[k] = disk.accounts[i]}) = 1
            /\ \A k \in 1..Len(listed), l \in 1..Len(listed) :
                  k < l =>
                      /\ ~NameBefore(listed[l], listed[k])
                      /\ NameBefore(listed[k], listed[l]) \/ listed[k].id < listed[l].id
            /\ res[p].again => res[p].first.value = listed

ListSorted_Witness ==
    \E p \in SeqProcs :
        /\ req[p].op = "list_accounts" /\ res[p].again
        /\ Len(res[p].value) = 2
        /\ res[p].value[1].id = 2
        /\ res[p].value[1].last_name = res[p].value[2].last_name
        /\ res[p].value[2].balance > 0

ReceiptCarriesRowId ==
    \A p \in SeqProcs :
        req[p].op = "print_receipt" /\ res[p].value.sent =>
            LET v      == res[p].value
                newest == disk.transactions[Len(disk.transactions)]
            IN  /\ disk.transactions # << >>
                /\ newest.transaction_type = v.transaction.transaction_type
                /\ newest.amount = v.transaction.amount
                /\ newest.balance_after = v.transaction.new_balance
                /\ v.transaction_id = newest.id
                /\ v.submitted[1].transaction_id = newest.id
====
